---- MODULE Spec2Model ----
(***************************************************************************)
(* Model of check-image.py: the registry detector, the reference parser,   *)
(* the auth provider, the manifest and blob fetchers, the architecture     *)
(* resolver and the reporter, run as the sequential pipeline of __main__.  *)
(*                                                                         *)
(* Strings the code inspects character by character (the image reference,  *)
(* the repository, the tag) are sequences of one-character strings.        *)
(* Strings the code only passes around or tests for truth (tokens,         *)
(* digests, architectures) are TLA+ strings; Absent stands for Python's    *)
(* None / a missing dictionary key.                                        *)
(***************************************************************************)
EXTENDS Integers, Sequences, FiniteSets

VARIABLES image, GITHUB_TOKEN, QUAY_TOKEN, pc, registry, repository, tag,
          token, manifest, architectures, resolved, exitStatus, requests,
          output

vars == <<image, GITHUB_TOKEN, QUAY_TOKEN, pc, registry, repository, tag,
          token, manifest, architectures, resolved, exitStatus, requests,
          output>>

(* ---------------------------- bounds ----------------------------------- *)

\* longest reference body (the part after an optional known prefix)
MaxBody == 5

\* longest `manifests` list of a fetched manifest
MaxManifests == 2

(* ------------------------- string helpers ------------------------------ *)

Absent == "<None>"

\* Python truthiness of an optional string: None and '' are false
Truthy(s) == s # Absent /\ s # ""

Alphabet == {"a", "B", "5", ".", "/", ":"}

Digits == {"5"}

GHCR_PREFIX == <<"g", "h", "c", "r", ".", "i", "o", "/">>

QUAY_PREFIX == <<"q", "u", "a", "y", ".", "i", "o", "/">>

DOCKER_PREFIX == <<"d", "o", "c", "k", "e", "r", ".", "i", "o", "/">>

LIBRARY_PREFIX == <<"l", "i", "b", "r", "a", "r", "y", "/">>

LATEST == <<"l", "a", "t", "e", "s", "t">>

\* str.startswith
startswith(s, p) == Len(s) >= Len(p) /\ SubSeq(s, 1, Len(p)) = p

\* `c in s` for a one-character c
contains(s, c) == \E i \in 1..Len(s) : s[i] = c

\* str.count for a one-character c
count(s, c) == Cardinality({i \in 1..Len(s) : s[i] = c})

\* str.find + 1 for a one-character c: index of the first c, 0 when none
find(s, c) ==
    IF contains(s, c)
    THEN CHOOSE i \in 1..Len(s) : s[i] = c /\ \A j \in 1..(i - 1) : s[j] # c
    ELSE 0

\* s.split(c)[0]
split_first(s, c) == IF contains(s, c) THEN SubSeq(s, 1, find(s, c) - 1) ELSE s

\* s.split(c, 1)[1], for s that contains c
split_rest(s, c) == SubSeq(s, find(s, c) + 1, Len(s))

\* str.lower
lower(s) == [i \in 1..Len(s) |-> IF s[i] = "B" THEN "b" ELSE s[i]]

(* ------------------------- Registry Detector --------------------------- *)

detect_registry(img) ==
    IF startswith(img, GHCR_PREFIX) THEN "ghcr"
    ELSE IF startswith(img, QUAY_PREFIX) THEN "quay"
    ELSE IF startswith(img, DOCKER_PREFIX) THEN "dockerhub"
    ELSE IF (~contains(img, "/") \/ count(img, "/") = 1)
            /\ ~contains(split_first(img, "/"), ".")
         THEN "dockerhub"
    ELSE "unsupported"

(* ------------------------- Reference Parser ---------------------------- *)

\* lines 173-181: strip the known host prefix of the detected registry
strip_prefix(img, reg) ==
    IF reg = "ghcr" /\ startswith(img, GHCR_PREFIX)
    THEN SubSeq(img, 9, Len(img))
    ELSE IF reg = "quay" /\ startswith(img, QUAY_PREFIX)
    THEN SubSeq(img, 9, Len(img))
    ELSE IF reg = "dockerhub" /\ startswith(img, DOCKER_PREFIX)
    THEN SubSeq(img, 11, Len(img))
    ELSE img

\* the (repository, tag) pair, as a record
parse_image_spec(img, reg) ==
    LET stripped == strip_prefix(img, reg)
        repo0 == IF contains(stripped, ":") THEN split_first(stripped, ":")
                 ELSE stripped
        tag0 == IF contains(stripped, ":") THEN split_rest(stripped, ":")
                ELSE LATEST
        repo1 == IF reg = "dockerhub" /\ ~contains(repo0, "/")
                 THEN LIBRARY_PREFIX \o repo0
                 ELSE repo0
    IN [repository |-> lower(repo1), tag |-> tag0]

(* --------------------- environment and network ------------------------- *)

TARGET_ARCHITECTURES == {"amd64", "arm64"}

\* architectures a registry may report
Archs == {"amd64", "arm64", "arm"}

\* bearer tokens a token endpoint may hand out
Tokens == {"t1", "t2"}

IMAGE_CONFIG == "application/vnd.docker.container.image.v1+json"

HELM_CONFIG == "application/vnd.cncf.helm.config.v1+json"

ARTIFACT_CONFIG == "application/vnd.example.artifact.config+json"

MediaTypes == {IMAGE_CONFIG, HELM_CONFIG, ARTIFACT_CONFIG}

\* 'helm' in config_type
in_helm(config_type) == config_type = HELM_CONFIG

\* 'artifact' in config_type
in_artifact(config_type) == config_type = ARTIFACT_CONFIG

\* one descriptor of a `manifests` list: with or without a `platform`
\* field, whose `architecture` may be missing
Entries ==
    {[hasPlatform |-> FALSE, architecture |-> Absent]}
    \cup {[hasPlatform |-> TRUE, architecture |-> a] : a \in Archs \cup {Absent}}

ManifestLists == UNION {[1..k -> Entries] : k \in 0..MaxManifests}

\* the `config` descriptor of a manifest
Configs == [mediaType : MediaTypes, digest : {Absent, "sha256:abc"}]

NoConfig == [mediaType |-> Absent, digest |-> Absent]

\* the JSON documents the manifest endpoint may return
Manifests ==
    {[hasManifests |-> hm, manifests |-> ml, hasConfig |-> hc, config |-> c,
      artifactType |-> at] :
        hm \in BOOLEAN, ml \in ManifestLists, hc \in BOOLEAN,
        c \in Configs \cup {NoConfig}, at \in {Absent, "application/x.sbom"}}

\* a JSON document is one of Manifests only in canonical form: an absent
\* field carries no value
WellFormed(m) ==
    /\ (~m.hasManifests => m.manifests = <<>>)
    /\ (m.hasConfig <=> m.config # NoConfig)

NoManifest ==
    [hasManifests |-> FALSE, manifests |-> <<>>, hasConfig |-> FALSE,
     config |-> NoConfig, artifactType |-> Absent]

\* requests.get on a token endpoint: RequestException, or a body with a token
TokenResponses ==
    {[ok |-> FALSE, token |-> Absent]} \cup {[ok |-> TRUE, token |-> t] : t \in Tokens}

\* requests.get on the manifest endpoint
ManifestResponses ==
    {[ok |-> FALSE, manifest |-> NoManifest]}
    \cup {[ok |-> TRUE, manifest |-> m] : m \in {x \in Manifests : WellFormed(x)}}

\* requests.get on the blob endpoint; a body may lack `architecture` or
\* carry an empty one
BlobResponses ==
    {[ok |-> FALSE, architecture |-> Absent]}
    \cup {[ok |-> TRUE, architecture |-> a] : a \in Archs \cup {Absent, ""}}

\* one entry of the log of HTTP requests issued by the run: the endpoint,
\* the bearer token of the Authorization header (Absent: no header), the
\* outcome and the token or architecture of the response body
Request(kind, auth, ok, body) ==
    [kind |-> kind, auth |-> auth, ok |-> ok, body |-> body]

(* ---------------------------- Auth Provider ---------------------------- *)

\* the result of an auth call: the requests it issued, whether it returned
\* (FALSE: sys.exit(1)) and the token it returned
get_dockerhub_auth_token(r) ==
    [reqs |-> <<Request("token", Absent, r.ok, r.token)>>, ok |-> r.ok,
     token |-> r.token]

get_ghcr_auth_token(user_token, r) ==
    IF Truthy(user_token)
    THEN [reqs |-> <<>>, ok |-> TRUE, token |-> user_token]
    ELSE [reqs |-> <<Request("token", Absent, r.ok, r.token)>>, ok |-> r.ok,
          token |-> r.token]

get_quay_auth_token(env_token) ==
    [reqs |-> <<>>, ok |-> TRUE, token |-> env_token]

(* ------------------------- Manifest Fetcher ---------------------------- *)

\* the Authorization header of the manifest request
manifest_auth(reg, tok) ==
    IF reg = "quay" THEN (IF Truthy(tok) THEN tok ELSE Absent) ELSE tok

(* --------------------------- Blob Fetcher ------------------------------ *)

\* the result of get_config_blob: the requests it issued and the
\* `architecture` of the dictionary it returns ({} on any failure)
get_config_blob(reg, repo, digest, tok, r) ==
    IF reg \in {"dockerhub", "ghcr"}
    THEN [reqs |-> <<Request("blob", tok, r.ok, r.architecture)>>,
          architecture |-> IF r.ok THEN r.architecture ELSE Absent]
    ELSE IF reg = "quay"
    THEN [reqs |-> <<Request("blob", IF Truthy(tok) THEN tok ELSE Absent,
                             r.ok, r.architecture)>>,
          architecture |-> IF r.ok THEN r.architecture ELSE Absent]
    ELSE [reqs |-> <<>>, architecture |-> Absent]

(* ----------------------- Architecture Resolver ------------------------- *)

RECURSIVE platform_archs(_)
\* [m['platform']['architecture'] for m in manifests if 'platform' in m]
platform_archs(ml) ==
    IF ml = <<>> THEN <<>>
    ELSE IF Head(ml).hasPlatform
         THEN <<Head(ml).architecture>> \o platform_archs(Tail(ml))
         ELSE platform_archs(Tail(ml))

\* lines 145-147, the index shape: the list comprehension raises KeyError
\* on an entry whose `platform` has no `architecture`
index_archs_skipFirst(m) ==
    [archs |-> platform_archs(Tail(m.manifests)), reqs |-> <<>>, raised |-> FALSE]

index_archs(m) ==
    IF \E i \in 1..Len(m.manifests) :
          m.manifests[i].hasPlatform /\ m.manifests[i].architecture = Absent
    THEN [archs |-> <<>>, reqs |-> <<>>, raised |-> TRUE]
    ELSE [archs |-> platform_archs(m.manifests), reqs |-> <<>>, raised |-> FALSE]

\* lines 156-166, the single-arch container image: the config blob is
\* fetched only with a registry, a repository, a token and a digest
config_archs_emptyFallback(m, reg, repo, tok, r) ==
    IF reg # "" /\ repo # <<>> /\ Truthy(tok) /\ Truthy(m.config.digest)
    THEN LET config_blob == get_config_blob(reg, repo, m.config.digest, tok, r)
         IN IF Truthy(config_blob.architecture)
            THEN [archs |-> <<config_blob.architecture>>,
                  reqs |-> config_blob.reqs, raised |-> FALSE]
            ELSE [archs |-> <<>>, reqs |-> config_blob.reqs, raised |-> FALSE]
    ELSE [archs |-> <<>>, reqs |-> <<>>, raised |-> FALSE]

config_archs(m, reg, repo, tok, r) ==
    IF reg # "" /\ repo # <<>> /\ Truthy(tok) /\ Truthy(m.config.digest)
    THEN LET config_blob == get_config_blob(reg, repo, m.config.digest, tok, r)
         IN IF Truthy(config_blob.architecture)
            THEN [archs |-> <<config_blob.architecture>>,
                  reqs |-> config_blob.reqs, raised |-> FALSE]
            ELSE [archs |-> <<"unknown">>, reqs |-> config_blob.reqs,
                  raised |-> FALSE]
    ELSE [archs |-> <<"unknown">>, reqs |-> <<>>, raised |-> FALSE]

\* the result of check_architectures: the list returned, the requests
\* issued on the way and whether the call raised KeyError instead
check_architectures(m, reg, repo, tok, r) ==
    IF m.hasManifests /\ m.manifests # <<>>
    THEN index_archs(m)
    ELSE IF m.hasConfig
    THEN IF in_helm(m.config.mediaType) \/ in_artifact(m.config.mediaType)
         THEN [archs |-> <<>>, reqs |-> <<>>, raised |-> FALSE]
         ELSE config_archs(m, reg, repo, tok, r)
    ELSE [archs |-> <<>>, reqs |-> <<>>, raised |-> FALSE]

(* ------------------------------ __main__ ------------------------------- *)

\* the references the run is tried on: a bare name, name:tag, a dotted
\* tag, Owner/name:tag, the three known prefixes, a dotted custom host,
\* host:port/name, three segments, an empty repository and an empty tag
RunImages ==
    { <<"a">>,
      <<"a", ":", "5">>,
      <<"a", ":", "5", ".", "5">>,
      <<"B", "/", "a", ":", "a">>,
      GHCR_PREFIX \o <<"a", "/", "a">>,
      QUAY_PREFIX \o <<"a", "/", "a", ":", "5">>,
      DOCKER_PREFIX \o <<"a">>,
      <<"a", ".", "a", "/", "a">>,
      <<"a", ":", "5", "/", "a">>,
      <<"a", "/", "a", "/", "a">>,
      GHCR_PREFIX \o <<":", "a">>,
      <<"a", ":">> }

\* every reference made of an optional known prefix and a body of at most
\* MaxBody characters
Bodies == UNION {[1..k -> Alphabet] : k \in 0..MaxBody}

References ==
    {p \o b : p \in {<<>>, GHCR_PREFIX, QUAY_PREFIX, DOCKER_PREFIX}, b \in Bodies}

\* the state before the first statement of __main__, but for the image
\* and the environment
Fresh ==
    /\ pc = "start"
    /\ registry = ""
    /\ repository = <<>>
    /\ tag = <<>>
    /\ token = Absent
    /\ manifest = NoManifest
    /\ architectures = <<>>
    /\ resolved = FALSE
    /\ exitStatus = -1
    /\ requests = <<>>
    /\ output = ""

Init ==
    /\ image \in RunImages
    /\ GITHUB_TOKEN \in {Absent, "ghp_env"}
    /\ QUAY_TOKEN \in {Absent, "quay_env"}
    /\ Fresh

InitRef ==
    /\ image \in References
    /\ GITHUB_TOKEN = Absent
    /\ QUAY_TOKEN = Absent
    /\ Fresh

\* sys.exit(code), or the end of the script with code 0
Exit(code, msg) ==
    /\ pc' = "done"
    /\ exitStatus' = code
    /\ output' = msg

\* Detect with an unknown registry defaulting to DockerHub
Detect_defaultDockerHub ==
    /\ pc = "start"
    /\ registry' = IF detect_registry(image) = "unsupported" THEN "dockerhub"
                   ELSE detect_registry(image)
    /\ pc' = "parse"
    /\ UNCHANGED <<image, GITHUB_TOKEN, QUAY_TOKEN, repository, tag, token,
                   manifest, architectures, resolved, requests, exitStatus,
                   output>>

\* lines 231-240: detect the registry, stop on an unsupported one
Detect ==
    /\ pc = "start"
    /\ registry' = detect_registry(image)
    /\ IF detect_registry(image) = "unsupported"
       THEN Exit(1, "unsupported registry")
       ELSE pc' = "parse" /\ UNCHANGED <<exitStatus, output>>
    /\ UNCHANGED <<image, GITHUB_TOKEN, QUAY_TOKEN, repository, tag, token,
                   manifest, architectures, resolved, requests>>

\* line 243
Parse ==
    /\ pc = "parse"
    /\ repository' = parse_image_spec(image, registry).repository
    /\ tag' = parse_image_spec(image, registry).tag
    /\ pc' = "auth"
    /\ UNCHANGED <<image, GITHUB_TOKEN, QUAY_TOKEN, registry, token, manifest,
                   architectures, resolved, exitStatus, requests, output>>

\* the auth call of a registry, as lines 246-253 and 197-205 dispatch it
auth_call(reg, r) ==
    IF reg = "dockerhub" THEN get_dockerhub_auth_token(r)
    ELSE IF reg = "ghcr" THEN get_ghcr_auth_token(GITHUB_TOKEN, r)
    ELSE IF reg = "quay" THEN get_quay_auth_token(QUAY_TOKEN)
    ELSE [reqs |-> <<>>, ok |-> TRUE, token |-> Absent]

\* lines 245-253: the token kept for the config blob
MainAuth ==
    /\ pc = "auth"
    /\ \E r \in TokenResponses :
          LET a == auth_call(registry, r)
          IN /\ requests' = requests \o a.reqs
             /\ IF a.ok
                THEN /\ token' = a.token
                     /\ pc' = "manifest"
                     /\ UNCHANGED <<exitStatus, output>>
                ELSE /\ Exit(1, "failed to get auth token")
                     /\ UNCHANGED token
    /\ UNCHANGED <<image, GITHUB_TOKEN, QUAY_TOKEN, registry, repository, tag,
                   manifest, architectures, resolved>>

\* GetManifest with a failed manifest request answered by an empty manifest
GetManifest_emptyOnFailure ==
    /\ pc = "manifest"
    /\ \E r \in TokenResponses, mr \in ManifestResponses :
          LET a == auth_call(registry, r)
              get == Request("manifest", manifest_auth(registry, a.token),
                             mr.ok, "")
          IN IF ~a.ok
             THEN /\ requests' = requests \o a.reqs
                  /\ Exit(1, "failed to get auth token")
                  /\ UNCHANGED manifest
             ELSE /\ requests' = requests \o a.reqs \o <<get>>
                  /\ manifest' = mr.manifest
                  /\ pc' = "check"
                  /\ UNCHANGED <<exitStatus, output>>
    /\ UNCHANGED <<image, GITHUB_TOKEN, QUAY_TOKEN, registry, repository, tag,
                   token, architectures, resolved>>

\* line 255, get_manifest: its own auth call, then the manifest request
GetManifest ==
    /\ pc = "manifest"
    /\ \E r \in TokenResponses, mr \in ManifestResponses :
          LET a == auth_call(registry, r)
              get == Request("manifest", manifest_auth(registry, a.token),
                             mr.ok, "")
          IN IF registry \notin {"dockerhub", "ghcr", "quay"}
             THEN /\ Exit(1, "unsupported registry")
                  /\ UNCHANGED <<requests, manifest>>
             ELSE IF ~a.ok
             THEN /\ requests' = requests \o a.reqs
                  /\ Exit(1, "failed to get auth token")
                  /\ UNCHANGED manifest
             ELSE IF ~mr.ok
             THEN /\ requests' = requests \o a.reqs \o <<get>>
                  /\ Exit(1, "failed to get manifest")
                  /\ UNCHANGED manifest
             ELSE /\ requests' = requests \o a.reqs \o <<get>>
                  /\ manifest' = mr.manifest
                  /\ pc' = "check"
                  /\ UNCHANGED <<exitStatus, output>>
    /\ UNCHANGED <<image, GITHUB_TOKEN, QUAY_TOKEN, registry, repository, tag,
                   token, architectures, resolved>>

\* line 256; an uncaught KeyError ends the process with status 1
CheckArchitectures ==
    /\ pc = "check"
    /\ \E r \in BlobResponses :
          LET c == check_architectures(manifest, registry, repository, token, r)
          IN /\ requests' = requests \o c.reqs
             /\ IF c.raised
                THEN /\ Exit(1, "KeyError")
                     /\ UNCHANGED <<architectures, resolved>>
                ELSE /\ architectures' = c.archs
                     /\ resolved' = TRUE
                     /\ pc' = "report"
                     /\ UNCHANGED <<exitStatus, output>>
    /\ UNCHANGED <<image, GITHUB_TOKEN, QUAY_TOKEN, registry, repository, tag,
                   token, manifest>>

\* set(architectures)
Range(s) == {s[i] : i \in 1..Len(s)}

\* lines 258-279: only the empty result calls sys.exit(1); both branches
\* of the final test fall off the end of the script
Report ==
    /\ pc = "report"
    /\ IF architectures = <<>>
       THEN IF in_helm(manifest.config.mediaType)
            THEN Exit(1, "helm chart")
            ELSE IF in_artifact(manifest.config.mediaType)
                    \/ Truthy(manifest.artifactType)
            THEN Exit(1, "OCI artifact")
            ELSE Exit(1, "no architectures found")
       ELSE IF TARGET_ARCHITECTURES \ Range(architectures) = {}
            THEN Exit(0, "supports all required architectures")
            ELSE Exit(0, "missing architectures")
    /\ UNCHANGED <<image, GITHUB_TOKEN, QUAY_TOKEN, registry, repository, tag,
                   token, manifest, architectures, resolved, requests>>

Next == Detect \/ Parse \/ MainAuth \/ GetManifest \/ CheckArchitectures \/ Report

Spec == Init /\ [][Next]_vars

NextRef == Detect \/ Parse

\* the detector and the parser on every bounded reference
SpecRef == InitRef /\ [][NextRef]_vars

TypeOK ==
    /\ pc \in {"start", "parse", "auth", "manifest", "check", "report", "done"}
    /\ registry \in {"", "dockerhub", "ghcr", "quay", "unsupported"}
    /\ exitStatus \in {-1, 0, 1}
    /\ (pc = "done" <=> exitStatus # -1)
    /\ resolved \in BOOLEAN

(* ------------------------------ claims --------------------------------- *)

\* the requests of one endpoint, in the order they were issued
RequestsOf(kind) == SelectSeq(requests, LAMBDA q : q.kind = kind)

\* check_architectures has returned or raised for the fetched manifest
Checked == pc \in {"report", "done"}

KnownPrefix(img) ==
    \/ startswith(img, GHCR_PREFIX)
    \/ startswith(img, QUAY_PREFIX)
    \/ startswith(img, DOCKER_PREFIX)

\* the reference without its tag: the tag starts at the first ':' after
\* the last '/'
RepositoryPart(img) ==
    LET slashes == {i \in 1..Len(img) : img[i] = "/"}
        colons == {i \in 1..Len(img) :
                      img[i] = ":" /\ \A j \in slashes : j < i}
    IN IF colons = {} THEN img
       ELSE SubSeq(img, 1, (CHOOSE i \in colons : \A j \in colons : i <= j) - 1)

\* the first path segment of the repository part
FirstPathSegment(img) == split_first(RepositoryPart(img), "/")

\* the first segment is host:port and a '/' follows it
PortBearingHost(img) ==
    /\ contains(img, "/")
    /\ LET seg == split_first(img, "/")
       IN /\ count(seg, ":") = 1
          /\ Len(img) > Len(seg) + 1
          /\ split_first(seg, ":") # <<>>
          /\ split_first(seg, ":")[1] \in {"a", "B"}
          /\ split_rest(seg, ":") # <<>>
          /\ \A i \in 1..Len(split_rest(seg, ":")) : split_rest(seg, ":")[i] \in Digits

\* a manifest of the single-arch container shape
SingleArch(m) ==
    /\ m.hasConfig
    /\ ~in_helm(m.config.mediaType)
    /\ ~in_artifact(m.config.mediaType)
    /\ ~(m.hasManifests /\ m.manifests # <<>>)

\* the platform.architecture values of the entries with a platform, in order
PlatformArchitectures(ml) ==
    LET sel == SelectSeq(ml, LAMBDA e : e.hasPlatform)
    IN [i \in 1..Len(sel) |-> sel[i].architecture]

\* C1: a finished run has exit status 0 exactly when the resolved
\* architecture list contains both amd64 and arm64, and status 1 otherwise.
C1_ExitZeroIffAllTargets ==
    pc = "done" =>
        /\ exitStatus \in {0, 1}
        /\ (exitStatus = 0 <=>
               (resolved /\ TARGET_ARCHITECTURES \subseteq Range(architectures)))

\* C2: a reference that detect_registry classifies as unsupported never
\* gets past the detector: no request is ever issued and the run ends with
\* exit status 1 and the unsupported-registry error.
C2_UnsupportedNoNetwork ==
    detect_registry(image) = "unsupported" =>
        /\ requests = <<>>
        /\ pc \in {"start", "done"}
        /\ (pc = "done" => exitStatus = 1 /\ output = "unsupported registry")

C2_Witness ==
    /\ pc = "done"
    /\ registry = "unsupported"
    /\ exitStatus = 1
    /\ requests = <<>>

\* the reference is name[:tag] or owner/name[:tag]: at most one '/', no
\* empty path segment, and a tag, when there is one, that starts with a
\* letter or a digit and has no ':' or '/'
NameOrOwnerName(img) ==
    LET repo == RepositoryPart(img)
        rest == SubSeq(img, Len(repo) + 2, Len(img))
    IN /\ count(img, "/") <= 1
       /\ repo # <<>>
       /\ repo[1] # "/" /\ repo[Len(repo)] # "/"
       /\ ~contains(repo, ":")
       /\ (Len(repo) < Len(img) =>
              /\ rest # <<>>
              /\ rest[1] \in {"a", "B", "5"}
              /\ ~contains(rest, ":"))

\* C3: a reference name[:tag] or owner/name[:tag] without a known prefix
\* and with no '.' in the first path segment of its repository part is
\* classified dockerhub, whatever its tag.
C3_DockerhubWhateverTag ==
    (/\ pc # "start"
     /\ ~KnownPrefix(image)
     /\ NameOrOwnerName(image)
     /\ ~contains(FirstPathSegment(image), "."))
    => registry = "dockerhub"

\* C4: once a reference of a supported registry is parsed, the repository
\* and the tag are both non-empty.
C4_ParsedNonEmpty ==
    pc = "auth" => (repository # <<>> /\ tag # <<>>)

PlatformsComplete(ml) ==
    \A i \in 1..Len(ml) : ml[i].hasPlatform => ml[i].architecture # Absent

C6_BlobFallback ==
    (/\ Checked
     /\ SingleArch(manifest)
     /\ Truthy(manifest.config.digest)
     /\ repository # <<>>
     /\ Truthy(token))
    => /\ resolved
       /\ Len(RequestsOf("blob")) = 1
       /\ LET blob == RequestsOf("blob")[1]
          IN architectures = IF blob.ok /\ Truthy(blob.body)
                             THEN <<blob.body>>
                             ELSE <<"unknown">>
       /\ (pc = "done" =>
              output \in {"supports all required architectures",
                          "missing architectures"})

C6_Witness ==
    /\ pc = "done"
    /\ SingleArch(manifest)
    /\ Len(RequestsOf("blob")) = 1
    /\ ~RequestsOf("blob")[1].ok
    /\ architectures = <<"unknown">>
    /\ output = "missing architectures"

\* C7: a failed token or manifest request is the last request of the run:
\* the process has exited with status 1 on it, and no architecture list
\* was resolved or reported.
C7_FatalFetchFailure ==
    \A i \in 1..Len(requests) :
        (requests[i].kind \in {"token", "manifest"} /\ ~requests[i].ok) =>
            /\ i = Len(requests)
            /\ pc = "done"
            /\ exitStatus = 1
            /\ ~resolved
            /\ output \in {"failed to get auth token", "failed to get manifest"}

C7_Witness ==
    /\ pc = "done"
    /\ exitStatus = 1
    /\ Len(requests) = 3
    /\ requests[1].kind = "token" /\ requests[1].ok
    /\ requests[3].kind = "manifest" /\ ~requests[3].ok

\* C8: a run requests each of the token, manifest and blob endpoints at
\* most once, in that order, and the bearer token of the blob request is
\* the one obtained for and sent with the manifest request.
C8_SingleAttemptSameToken ==
    /\ Len(RequestsOf("token")) <= 1
    /\ Len(RequestsOf("manifest")) <= 1
    /\ Len(RequestsOf("blob")) <= 1
    /\ \A i, j \in 1..Len(requests) :
          (i < j) =>
              /\ ~(requests[i].kind = "manifest" /\ requests[j].kind = "token")
              /\ ~(requests[i].kind = "blob" /\ requests[j].kind # "blob")
    /\ \A i, j \in 1..Len(requests) :
          (requests[i].kind = "manifest" /\ requests[j].kind = "blob") =>
              requests[j].auth = requests[i].auth

\* C9: a reference without a known prefix whose first segment is
\* host:port is classified unsupported, so it is never parsed.
C9_PortHostUnsupported ==
    (pc # "start" /\ ~KnownPrefix(image) /\ PortBearingHost(image)) =>
        (registry = "unsupported" /\ pc = "done")

\* C10: an anonymous quay run on a single-arch container manifest with a
\* config digest issues the blob request without an Authorization header
\* and resolves [a] from a blob with architecture a, ["unknown"] only
\* after a failed or architecture-less blob.
C10_QuayAnonymousBlob ==
    (/\ Checked
     /\ registry = "quay"
     /\ QUAY_TOKEN = Absent
     /\ SingleArch(manifest)
     /\ Truthy(manifest.config.digest))
    => /\ Len(RequestsOf("blob")) = 1
       /\ RequestsOf("blob")[1].auth = Absent
       /\ architectures = IF RequestsOf("blob")[1].ok
                             /\ Truthy(RequestsOf("blob")[1].body)
                          THEN <<RequestsOf("blob")[1].body>>
                          ELSE <<"unknown">>

====
